---- MODULE Spec2Model ----
(***************************************************************************)
(* IncluScore: the what-if score simulator (ScoreSimulator component and   *)
(* the api module it calls) and the model-version / score-history stores.  *)
(*                                                                         *)
(* JavaScript values are encoded as follows.                               *)
(*   - an object is a function whose DOMAIN is the set of its own keys;    *)
(*     a key that is absent models undefined / null;                       *)
(*   - a nullable number is a sequence: <<>> is null, <<n>> is n;          *)
(*   - a string employment label is an integer >= StrBase, so that         *)
(*     typeof === 'number' is "< StrBase";                                 *)
(*   - a fractional score adjustment is an integer count of 1/Scale        *)
(*     points; Math.round is computed on that representation;              *)
(*   - a text is a sequence of fragments [t |-> template, n |-> number].   *)
(***************************************************************************)
EXTENDS Integers, Sequences, FiniteSets, TLC

VARIABLES
  currentData,          \* prop: the beneficiary profile as loaded
  currentScore,         \* prop: the score shown as current
  hypotheticalChanges,  \* useState({})
  projectedScore,       \* useState(null)
  scoreChange,          \* useState(0)
  explanation,          \* useState('')
  loading,              \* useState(false)
  error,                \* useState(null)
  chartData,            \* useState([])
  request,              \* the pending simulateScore call of handleSimulate
  resultSource,         \* history: which branch of handleSimulate set the result
  model_versions,       \* table model_versions
  score_history,        \* table score_history
  reader,               \* a predict call in progress
  trainer,              \* the single writer: an update / retraining in progress
  failures,             \* reported training failures
  outcomes,             \* record_outcome submissions and what became of them
  page,                 \* BeneficiaryDashboard: the profile load and what it renders
  auth                  \* Clerk's useUser() and the UserProvider state built on it

vars == <<currentData, currentScore, hypotheticalChanges, projectedScore,
          scoreChange, explanation, loading, error, chartData, request,
          resultSource, model_versions, score_history, reader,
          trainer, failures, outcomes, page, auth>>

simVars == <<hypotheticalChanges, projectedScore, scoreChange, explanation,
             loading, error, chartData, request, resultSource>>

propVars == <<currentData, currentScore, page, auth>>

storeVars == <<model_versions, score_history>>

engineVars == <<reader, trainer, failures, outcomes>>

----------------------------------------------------------------------------
(* Encoding of JavaScript values *)

Null == <<>>

Some(v) == <<v>>

StrBase == 1000000

Has(obj, k) == k \in DOMAIN obj

\* obj[k] || dflt, for a numeric or label field
OrDefault(obj, k, dflt) ==
  IF Has(obj, k) /\ obj[k] # 0 THEN obj[k] ELSE dflt

\* obj[k] ?? dflt
Nullish(obj, k, dflt) == IF Has(obj, k) THEN obj[k] ELSE dflt

IsNumber(v) == v < StrBase

\* a > b in JavaScript: a comparison with a non-numeric string is false
JsGreater(a, b) == IsNumber(a) /\ IsNumber(b) /\ a > b

JsLess(a, b) == IsNumber(a) /\ IsNumber(b) /\ a < b

Min(a, b) == IF a < b THEN a ELSE b

Max(a, b) == IF a > b THEN a ELSE b

Frag(t, n) == [t |-> t, n |-> n]

Text(t) == Frag(t, 0)

----------------------------------------------------------------------------
(* simulateScoreLocally: the local fallback heuristic *)

IncomeUnit == 1000

IncomePoints == 2

\* adjustments are counted in 1/Scale points, which holds every income delta
Scale == IncomeUnit \div IncomePoints

MinScore == 300

LocalMaxScore == 850

DefaultBaseScore == 650

IncomeCap == 50

\* Math.round(x) = floor(x + 0.5), x given as xs / Scale
MathRound(xs) == (2 * xs + Scale) \div (2 * Scale)

\* case 'monthly_income': Math.min(((value - cur) / 1000) * 2, 50)
IncomeAdjustment(current, value) ==
  Min(((value - OrDefault(current, "monthly_income", 0)) * IncomePoints * Scale) \div IncomeUnit,
      IncomeCap * Scale)

\* the cases with an "if (value > cur) += up; if (value < cur) -= down"
StepAdjustment(current, key, value, up, down) ==
  LET cur == OrDefault(current, key, 0)
  IN  (IF JsGreater(value, cur) THEN up * Scale ELSE 0)
      - (IF JsLess(value, cur) THEN down * Scale ELSE 0)

\* case 'loan_tenure_months'
TenureAdjustment(current, value) ==
  LET tenureChange == value - OrDefault(current, "loan_tenure_months", 12)
  IN  (IF tenureChange < 0 THEN 10 * Scale ELSE 0)
      - (IF tenureChange > 0 THEN 5 * Scale ELSE 0)

\* the repayment case copies the utility-bill deltas
KeyAdjustment_BillDeltas(current, key, value) ==
  CASE key = "monthly_income" -> IncomeAdjustment(current, value)
    [] key = "employment_type" -> StepAdjustment(current, key, value, 25, 15)
    [] key = "loan_repayment_status" -> StepAdjustment(current, key, value, 30, 30)
    [] key = "electricity_bill_paid_on_time" -> StepAdjustment(current, key, value, 30, 30)
    [] key = "mobile_recharge_frequency" -> StepAdjustment(current, key, value, 15, 10)
    [] key = "loan_tenure_months" -> TenureAdjustment(current, value)
    [] OTHER -> 0

\* one iteration of the forEach over Object.entries(changes)
KeyAdjustment(current, key, value) ==
  CASE key = "monthly_income" -> IncomeAdjustment(current, value)
    [] key = "employment_type" -> StepAdjustment(current, key, value, 25, 15)
    [] key = "loan_repayment_status" -> StepAdjustment(current, key, value, 40, 40)
    [] key = "electricity_bill_paid_on_time" -> StepAdjustment(current, key, value, 30, 30)
    [] key = "mobile_recharge_frequency" -> StepAdjustment(current, key, value, 15, 10)
    [] key = "loan_tenure_months" -> TenureAdjustment(current, value)
    [] OTHER -> 0

RECURSIVE SumAdjustments(_, _, _)
SumAdjustments(current, changes, keys) ==
  IF keys = {} THEN 0
  ELSE LET k == CHOOSE x \in keys : TRUE
       IN  KeyAdjustment(current, k, changes[k])
             + SumAdjustments(current, changes, keys \ {k})

\* scoreAdjustment after the forEach, in 1/Scale points
ScoreAdjustment(current, changes) ==
  SumAdjustments(current, changes, DOMAIN changes)

\* let baseScore = currentScore || 650
BaseScore(score) == IF score # 0 THEN score ELSE DefaultBaseScore

\* Math.max(300, Math.min(850, baseScore + scoreAdjustment)), in 1/Scale points
LocalProjected(score, adj) ==
  Max(MinScore * Scale, Min(LocalMaxScore * Scale, BaseScore(score) * Scale + adj))

LocalExplanation(adj) ==
  << Text("Local simulation based on your changes: "),
     IF adj > 0 THEN Frag("These improvements could increase your score by approximately N points. ",
                          MathRound(adj))
     ELSE IF adj < 0 THEN Frag("These changes might decrease your score by approximately N points. ",
                               MathRound(-adj))
     ELSE Text("These changes would have minimal impact on your current score. "),
     Text("This is a simplified calculation. For more accurate projections, ensure the backend server is running.") >>

simulateScoreLocally(current, changes, score) ==
  LET adj == ScoreAdjustment(current, changes)
  IN  [projected_score |-> MathRound(LocalProjected(score, adj)),
       score_change |-> MathRound(adj),
       explanation |-> LocalExplanation(adj)]

----------------------------------------------------------------------------
(* ScoreSimulator helpers *)

LabelCode ==
  [unemployed |-> StrBase, self_employed |-> StrBase + 1,
   salaried |-> StrBase + 2, business_owner |-> StrBase + 3,
   student |-> StrBase + 4, constructor |-> StrBase + 5]

\* a value that is a function object (typeof 'function'), as Object is
FunctionValue == StrBase + StrBase

\* mapping[empType] for a key the literal does not hold: the member that the
\* object inherits from Object.prototype under that name, if there is one
InheritedMember(empType) ==
  IF empType = LabelCode.constructor THEN Some(FunctionValue) ELSE Null

\* mapping[empType] || 0, for a value that is not a number
convertEmploymentType(empType) ==
  IF IsNumber(empType) THEN empType
  ELSE IF empType = LabelCode.self_employed THEN 1
  ELSE IF empType = LabelCode.salaried THEN 2
  ELSE IF empType = LabelCode.business_owner THEN 3
  ELSE IF InheritedMember(empType) # Null THEN InheritedMember(empType)[1]
  ELSE 0

prepareDataForBackend(data) ==
  [loan_repayment_status |-> Nullish(data, "loan_repayment_status", 0),
   loan_tenure_months |-> Nullish(data, "loan_tenure_months", 12),
   electricity_bill_paid_on_time |-> Nullish(data, "electricity_bill_paid_on_time", 0),
   mobile_recharge_frequency |-> Nullish(data, "mobile_recharge_frequency", 1),
   is_high_need |-> IF OrDefault(data, "is_high_need", 0) # 0 THEN 1 ELSE 0,
   age |-> Nullish(data, "age", 30),
   monthly_income |-> Nullish(data, "monthly_income", 0),
   employment_type |-> IF Has(data, "employment_type")
                       THEN convertEmploymentType(data["employment_type"])
                       ELSE 0]

\* the forEach that builds preparedChanges
PreparedChanges(changes) ==
  [k \in DOMAIN changes |->
     IF k = "employment_type" THEN convertEmploymentType(changes[k])
     ELSE changes[k]]

\* the simulation is posted to the endpoint that commits
simulateScore_PostsUpdate(current_data, changes) ==
  [url |-> "/update",
   body |-> [beneficiary_id |-> "ZEN001", new_data |-> changes]]

\* api.simulateScore: the request it posts
simulateScore(current_data, changes) ==
  [url |-> "/simulate",
   body |-> [current_data |-> current_data, hypothetical_changes |-> changes]]

\* api.updateBeneficiary: the request it posts
updateBeneficiary(beneficiaryId, newData) ==
  [url |-> "/update",
   body |-> [beneficiary_id |-> beneficiaryId, new_data |-> newData]]

\* the axios errors the response interceptor can be handed
AxiosErrors ==
  { [kind |-> "response", status |-> 500, detail |-> "Model not loaded"],
    [kind |-> "response", status |-> 422, detail |-> "Server error occurred"],
    [kind |-> "request", status |-> 0, detail |-> ""],
    [kind |-> "setup", status |-> 0, detail |-> "canceled"] }

\* api.interceptors.response, error side: the message of the Error it throws
InterceptorMessage(err) ==
  IF err.kind = "response" THEN << Frag("N: ", err.status), Text(err.detail) >>
  ELSE IF err.kind = "request"
       THEN << Text("No response from server. Please check your connection.") >>
  ELSE << Text("Request error: "), Text(err.detail) >>

\* simulateScore's catch: throw new Error(`Failed to simulate score: ${error.message}`)
SimulateErrorMessage(err) ==
  << Text("Failed to simulate score: ") >> \o InterceptorMessage(err)

\* err.message.includes('No response from server') || err.message.includes('Network Error')
IsConnectionIssue(message) ==
  \E i \in 1..Len(message) :
     message[i].t \in { "No response from server. Please check your connection.",
                        "Network Error" }

WarnPrefix == "Using simplified calculation (backend unavailable): "

ErrNoChanges == "Please make at least one change to simulate"

ErrBackendDown == "Backend server not responding. Please ensure the backend server is running on http://localhost:8000"

ChartData(score, projected) ==
  << [month |-> "Current", score |-> score, label |-> "Current Score"],
     [month |-> "Projected", score |-> projected, label |-> "Projected Score"] >>

----------------------------------------------------------------------------
(* The stores and the scoring engine behind the API *)

MaxHistory == 3

MaxVersions == 3

\* the sample row inserted without is_active: the column default applies
SampleModelVersions_ColumnDefault ==
  << [version |-> 1, algorithm |-> "SGDClassifier", status |-> "activated",
      model_file |-> 1, features_config |-> 1,
      is_active |-> FALSE, training_data_size |-> 1500] >>

\* sample_data.sql: the one model version, active
SampleModelVersions ==
  << [version |-> 1, algorithm |-> "SGDClassifier", status |-> "activated",
      model_file |-> 1, features_config |-> 1,
      is_active |-> TRUE, training_data_size |-> 1500] >>

\* sample_data.sql: score history rows
SampleScoreHistory ==
  << [beneficiary_id |-> "ZEN001", credit_score |-> 720,
      model_version |-> 1, calculation_trigger |-> "new_application"] >>

ActiveIds(mv) == { i \in 1..Len(mv) : mv[i].is_active }

\* POST /simulate: the engine scores the hypothetical vector with the active
\* model and returns the projection; the trained model is not part of the
\* repository sources, so its answer is one of a few display scores.
ModelDisplayScores == { 540, 690 }

ServerSimulateResults(body) ==
  { [projected_score |-> p, score_change |-> p - 650,
     explanation |-> << Text("model explanation") >>] : p \in ModelDisplayScores }

\* POST /update: the new score is persisted as a ScoreHistoryRecord
ServerUpdateHistory(body, mv, sh) ==
  Append(sh, [beneficiary_id |-> body.beneficiary_id, credit_score |-> 690,
              model_version |-> mv[CHOOSE i \in ActiveIds(mv) : TRUE].version,
              calculation_trigger |-> "manual_review"])

\* the effect of a request on the stored state, by endpoint
ServerStores(req, mv, sh) ==
  IF req.url = "/update"
  THEN << mv, IF Len(sh) < MaxHistory THEN ServerUpdateHistory(req.body, mv, sh) ELSE sh >>
  ELSE << mv, sh >>

----------------------------------------------------------------------------
(* ScoreSimulator: state and handlers *)

\* inputs of the controls, in tenths (e.target.value / slider value)
InputValues(parameter) ==
  CASE parameter = "loan_repayment_status" -> { 0, 10 }
    [] parameter = "mobile_recharge_frequency" -> { 40, 50 }
    [] parameter = "monthly_income" -> { 250000, -10000 }
    [] OTHER -> {}

SimParameters ==
  { "loan_repayment_status", "mobile_recharge_frequency", "monthly_income" }

\* parseInt(value, 10) of a number given in tenths: the integer part
ParseInt10(tenths) ==
  IF tenths >= 0 THEN tenths \div 10 ELSE -((-tenths) \div 10)

ParsedParameters ==
  { "loan_repayment_status", "electricity_bill_paid_on_time", "is_high_need",
    "employment_type", "mobile_recharge_frequency", "age", "monthly_income" }

TypedValue(parameter, value) ==
  IF parameter \in ParsedParameters THEN ParseInt10(value) ELSE value

\* the error of the range validation, Null when the value passes
ValidationError(parameter, typedValue) ==
  IF parameter = "mobile_recharge_frequency" /\ (typedValue < 1 \/ typedValue > 4)
    THEN Some("Mobile recharge frequency must be between 1 and 4")
  ELSE IF parameter = "monthly_income" /\ typedValue < 0
    THEN Some("Monthly income must be positive")
  ELSE IF parameter = "age" /\ (typedValue < 18 \/ typedValue > 65)
    THEN Some("Age must be between 18 and 65")
  ELSE Null

\* { ...prev, [parameter]: typedValue }
WithChange(prev, parameter, typedValue) ==
  [k \in DOMAIN prev \cup {parameter} |->
     IF k = parameter THEN typedValue ELSE prev[k]]

handleParameterChange(parameter, value) ==
  LET typedValue == TypedValue(parameter, value)
      verr == ValidationError(parameter, typedValue)
  IN  /\ IF verr # Null
         THEN /\ error' = verr
              /\ UNCHANGED hypotheticalChanges
         ELSE /\ error' = Null
              /\ hypotheticalChanges' = WithChange(hypotheticalChanges, parameter, typedValue)
      /\ UNCHANGED <<projectedScore, scoreChange, explanation, loading,
                     chartData, request, resultSource>>
      /\ UNCHANGED <<propVars, storeVars, engineVars>>

\* Reset with the button enabled while a request is in flight
resetSimulation_EnabledWhileLoading ==
  /\ hypotheticalChanges' = << >>
  /\ projectedScore' = Null
  /\ scoreChange' = 0
  /\ explanation' = << >>
  /\ error' = Null
  /\ chartData' = << >>
  /\ resultSource' = "none"
  /\ UNCHANGED <<loading, request>>
  /\ UNCHANGED <<propVars, storeVars, engineVars>>

resetSimulation ==
  /\ ~loading                      \* the Reset button is disabled while loading
  /\ hypotheticalChanges' = << >>
  /\ projectedScore' = Null
  /\ scoreChange' = 0
  /\ explanation' = << >>
  /\ error' = Null
  /\ chartData' = << >>
  /\ resultSource' = "none"
  /\ UNCHANGED <<loading, request>>
  /\ UNCHANGED <<propVars, storeVars, engineVars>>

\* the handler starts the request whatever the change set holds
handleSimulateStart_NoEmptyCheck ==
  /\ loading' = TRUE
  /\ error' = Null
  /\ request' = Some([req |-> simulateScore(prepareDataForBackend(currentData),
                                            PreparedChanges(hypotheticalChanges)),
                      changes |-> hypotheticalChanges])
  /\ UNCHANGED <<hypotheticalChanges, projectedScore, scoreChange, explanation,
                 chartData, resultSource>>
  /\ UNCHANGED <<propVars, storeVars, engineVars>>

\* handleSimulate up to the await: the handler returns with an error on an
\* empty change set, before it starts the request.
handleSimulateStart ==
  /\ IF DOMAIN hypotheticalChanges = {}
     THEN /\ error' = Some(ErrNoChanges)
          /\ UNCHANGED <<loading, request>>
     ELSE /\ loading' = TRUE
          /\ error' = Null
          /\ request' = Some([req |-> simulateScore(prepareDataForBackend(currentData),
                                                    PreparedChanges(hypotheticalChanges)),
                              changes |-> hypotheticalChanges])
  /\ UNCHANGED <<hypotheticalChanges, projectedScore, scoreChange, explanation,
                 chartData, resultSource>>
  /\ UNCHANGED <<propVars, storeVars, engineVars>>

\* a click on Simulate with the button enabled while a request is in flight
handleSimulate_EnabledWhileLoading ==
  /\ DOMAIN hypotheticalChanges # {}
  /\ handleSimulateStart

\* a click on Simulate: the button is disabled while loading or while there
\* is no change
handleSimulate ==
  /\ ~loading
  /\ DOMAIN hypotheticalChanges # {}
  /\ handleSimulateStart

\* the server handles the request and handleSimulate resumes with its result
SimulateSucceeds ==
  /\ request # Null
  /\ LET req == request[1].req
         stores == ServerStores(req, model_versions, score_history)
     IN  /\ model_versions' = stores[1]
         /\ score_history' = stores[2]
         /\ \E result \in ServerSimulateResults(req.body) :
              /\ projectedScore' = Some(result.projected_score)
              /\ scoreChange' = result.score_change
              /\ explanation' = result.explanation
              /\ chartData' = ChartData(currentScore, result.projected_score)
  /\ resultSource' = "model"
  /\ loading' = FALSE
  /\ request' = Null
  /\ UNCHANGED <<hypotheticalChanges, error>>
  /\ UNCHANGED <<propVars, engineVars>>

\* the fallback shows the local explanation as it is
ShowLocalResult_Unmarked(changes) ==
  LET localResult == simulateScoreLocally(currentData, changes, currentScore)
  IN  /\ projectedScore' = Some(localResult.projected_score)
      /\ scoreChange' = localResult.score_change
      /\ explanation' = localResult.explanation
      /\ chartData' = ChartData(currentScore, localResult.projected_score)
      /\ resultSource' = "local"

\* the catch branch that falls back to the local calculation
ShowLocalResult(changes) ==
  LET localResult == simulateScoreLocally(currentData, changes, currentScore)
  IN  /\ projectedScore' = Some(localResult.projected_score)
      /\ scoreChange' = localResult.score_change
      /\ explanation' = << Text(WarnPrefix) >> \o localResult.explanation
      /\ chartData' = ChartData(currentScore, localResult.projected_score)
      /\ resultSource' = "local"

\* the catch returns on a connection issue without reaching setLoading(false)
SimulateFails_ReturnsEarly ==
  /\ request # Null
  /\ \E err \in AxiosErrors :
       IF IsConnectionIssue(SimulateErrorMessage(err))
       THEN /\ error' = Some(ErrBackendDown)
            /\ loading' = loading
            /\ UNCHANGED <<projectedScore, scoreChange, explanation, chartData,
                           resultSource>>
       ELSE /\ ShowLocalResult(request[1].changes)
            /\ loading' = FALSE
            /\ UNCHANGED error
  /\ request' = Null
  /\ UNCHANGED hypotheticalChanges
  /\ UNCHANGED <<propVars, storeVars, engineVars>>

\* the call rejects and handleSimulate resumes in its catch
SimulateFails ==
  /\ request # Null
  /\ \E err \in AxiosErrors :
       IF IsConnectionIssue(SimulateErrorMessage(err))
       THEN /\ error' = Some(ErrBackendDown)
            /\ UNCHANGED <<projectedScore, scoreChange, explanation, chartData,
                           resultSource>>
       ELSE /\ ShowLocalResult(request[1].changes)
            /\ UNCHANGED error
  /\ loading' = FALSE
  /\ request' = Null
  /\ UNCHANGED hypotheticalChanges
  /\ UNCHANGED <<propVars, storeVars, engineVars>>

\* a caller of the API commits a new score for a beneficiary
CommitUpdate ==
  /\ Len(score_history) < MaxHistory
  /\ \E b \in { "ZEN001", "ZEN003" } :
       LET req == updateBeneficiary(b, currentData)
           stores == ServerStores(req, model_versions, score_history)
       IN  /\ model_versions' = stores[1]
           /\ score_history' = stores[2]
  /\ UNCHANGED <<simVars, propVars, engineVars>>

----------------------------------------------------------------------------
(* Profiles the simulator is rendered with *)

\* api.createDemoBeneficiaryData
DemoProfile ==
  [age |-> 35, employment_type |-> 2, monthly_income |-> 25000,
   loan_repayment_status |-> 1, loan_tenure_months |-> 12,
   electricity_bill_paid_on_time |-> 1, mobile_recharge_frequency |-> 2,
   is_high_need |-> 0]

\* sample_data.sql, beneficiary ZEN003: the employment type is the enum label
PoorProfile ==
  [employment_type |-> LabelCode.salaried, monthly_income |-> 12000,
   loan_repayment_status |-> 0, loan_tenure_months |-> 6,
   electricity_bill_paid_on_time |-> 0, mobile_recharge_frequency |-> 2,
   is_high_need |-> 1]

\* schema.sql: a beneficiary row holding the column defaults only
DefaultProfile ==
  [loan_repayment_status |-> 0, loan_tenure_months |-> 0,
   electricity_bill_paid_on_time |-> 0, mobile_recharge_frequency |-> 0,
   is_high_need |-> 0]

\* a profile whose income is not a multiple of 500 and that is unemployed
OddProfile ==
  [age |-> 22, employment_type |-> 0, monthly_income |-> 18750,
   loan_repayment_status |-> 0, loan_tenure_months |-> 24,
   electricity_bill_paid_on_time |-> 1, mobile_recharge_frequency |-> 3,
   is_high_need |-> 1]

NoRequestState ==
  /\ hypotheticalChanges = << >>
  /\ projectedScore = Null
  /\ scoreChange = 0
  /\ explanation = << >>
  /\ loading = FALSE
  /\ error = Null
  /\ chartData = << >>
  /\ request = Null
  /\ resultSource = "none"

StoresInit ==
  /\ model_versions = SampleModelVersions
  /\ score_history = SampleScoreHistory

\* no predict call in progress; kept is an earlier call held for comparison
ReaderIdle(kept) ==
  [pc |-> "idle", version |-> 0, vector |-> Null, model_file |-> 0,
   features_config |-> 0, output |-> Null, kept |-> kept]

EngineIdle ==
  /\ reader = ReaderIdle(Null)
  /\ trainer = [pc |-> "idle", version |-> 0]
  /\ failures = {}
  /\ outcomes = << >>

\* the dashboard before its load effect has run
PageInit ==
  [loading |-> TRUE, error |-> Null, beneficiaryData |-> Null,
   scoreHistory |-> << >>, fetch |-> "none"]

PageIdle == page = PageInit

\* UserProvider at construction, Clerk not loaded yet: dbUser null,
\* loading true, error null, no syncUser run started
AuthInit ==
  [isLoaded |-> FALSE, user |-> Null, dbUser |-> Null, loading |-> TRUE,
   error |-> Null, runs |-> << >>]

AuthIdle == auth = AuthInit

----------------------------------------------------------------------------
(* The simulator as the user drives it *)

SimProfiles == { DemoProfile, PoorProfile }

\* beneficiaryData.credit_score || 0
SimScores == { 650, 0 }

InitSim ==
  /\ currentData \in SimProfiles
  /\ currentScore \in SimScores
  /\ NoRequestState
  /\ StoresInit
  /\ EngineIdle
  /\ PageIdle
  /\ AuthIdle

NextSim ==
  \/ \E parameter \in SimParameters :
       \E value \in InputValues(parameter) : handleParameterChange(parameter, value)
  \/ handleSimulate
  \/ SimulateSucceeds
  \/ SimulateFails
  \/ resetSimulation
  \/ CommitUpdate

SpecSim == InitSim /\ [][NextSim]_vars

----------------------------------------------------------------------------
(* The local heuristic over bounded inputs *)

LocalValues(key) ==
  CASE key = "loan_repayment_status" -> { 0, 1 }
    [] key = "electricity_bill_paid_on_time" -> { 0, 1 }
    [] key = "mobile_recharge_frequency" -> { 1, 4 }
    [] key = "employment_type" -> { 0, 2 }
    [] key = "monthly_income" -> { 5000, 25000, 60000 }
    [] key = "loan_tenure_months" -> { 6, 24 }
    [] key = "age" -> { 40 }
    [] key = "savings_account_balance" -> { 15000 }

LocalKeys ==
  { "loan_repayment_status", "electricity_bill_paid_on_time",
    "mobile_recharge_frequency", "employment_type", "monthly_income",
    "loan_tenure_months", "age", "savings_account_balance" }

RECURSIVE PartialMaps(_)
PartialMaps(keys) ==
  IF keys = {} THEN { << >> }
  ELSE LET k == CHOOSE x \in keys : TRUE
           rest == PartialMaps(keys \ {k})
       IN  rest \cup { WithChange(r, k, v) : r \in rest, v \in LocalValues(k) }

LocalChangeSets == PartialMaps(LocalKeys) \ { << >> }

LocalProfiles == { DemoProfile, PoorProfile, DefaultProfile, OddProfile }

LocalScores == { 0, 300, 310, 650, 840, 850, 880, 900 }

InitLocal ==
  /\ currentData \in LocalProfiles
  /\ currentScore \in LocalScores
  /\ hypotheticalChanges \in LocalChangeSets
  /\ projectedScore = Null
  /\ scoreChange = 0
  /\ explanation = << >>
  /\ loading = TRUE
  /\ error = Null
  /\ chartData = << >>
  /\ request = Some([req |-> simulateScore(prepareDataForBackend(currentData),
                                           PreparedChanges(hypotheticalChanges)),
                     changes |-> hypotheticalChanges])
  /\ resultSource = "none"
  /\ StoresInit
  /\ EngineIdle
  /\ PageIdle
  /\ AuthIdle

\* the backend answers with an error status: handleSimulate falls back
LocalFallback ==
  /\ request # Null
  /\ ShowLocalResult(request[1].changes)
  /\ loading' = FALSE
  /\ request' = Null
  /\ UNCHANGED <<hypotheticalChanges, error>>
  /\ UNCHANGED <<propVars, storeVars, engineVars>>

NextLocal == LocalFallback

SpecLocal == InitLocal /\ [][NextLocal]_vars

----------------------------------------------------------------------------
(* Model Lifecycle Manager and Scoring Model: training -> candidate ->      *)
(* (activated | discarded), one writer, readers that hold the version they  *)
(* started with.  A version is fully formed when its model file and its     *)
(* features_config were written by the same training run.                   *)

SetRow(mv, i, row) == [mv EXCEPT ![i] = row]

MaxOutcomes == 2

\* every outcome in state from moves to state to
MoveOutcomes(oc, from, to) ==
  [i \in 1..Len(oc) |-> IF oc[i] = from THEN to ELSE oc[i]]

HasOutcome(status) == \E i \in 1..Len(outcomes) : outcomes[i] = status

\* record_outcome: the observation is queued for the next training run
RecordOutcome ==
  /\ Len(outcomes) < MaxOutcomes
  /\ Len(model_versions) < MaxVersions
  /\ outcomes' = Append(outcomes, "pending")
  /\ UNCHANGED <<storeVars, reader, trainer, failures, simVars, propVars>>

\* a training run that does not take up the recorded outcomes
StartTraining_LeavesOutcomes ==
  /\ trainer.pc = "idle"
  /\ Len(model_versions) < MaxVersions
  /\ ActiveIds(model_versions) # {}
  /\ LET n == Len(model_versions) + 1
         base == model_versions[CHOOSE i \in ActiveIds(model_versions) : TRUE]
     IN  /\ model_versions' =
              Append(model_versions,
                     [version |-> n, algorithm |-> base.algorithm,
                      status |-> "training", model_file |-> 0,
                      features_config |-> 0, is_active |-> FALSE,
                      training_data_size |-> base.training_data_size + 1])
         /\ trainer' = [pc |-> "fit", version |-> n]
  /\ outcomes' = outcomes
  /\ UNCHANGED <<score_history, reader, failures, simVars, propVars>>

\* update / retraining starts: a new row in state training, nothing written
StartTraining ==
  /\ trainer.pc = "idle"
  /\ Len(model_versions) < MaxVersions
  /\ ActiveIds(model_versions) # {}
  /\ LET n == Len(model_versions) + 1
         base == model_versions[CHOOSE i \in ActiveIds(model_versions) : TRUE]
     IN  /\ model_versions' =
              Append(model_versions,
                     [version |-> n, algorithm |-> base.algorithm,
                      status |-> "training", model_file |-> 0,
                      features_config |-> 0, is_active |-> FALSE,
                      training_data_size |-> base.training_data_size + 1])
         /\ trainer' = [pc |-> "fit", version |-> n]
  /\ outcomes' = MoveOutcomes(outcomes, "pending", "training")
  /\ UNCHANGED <<score_history, reader, failures, simVars, propVars>>

\* the row a training run writes to: its own new version
WriteTarget_InPlace(tr, mv) ==
  IF ActiveIds(mv) # {} THEN CHOOSE i \in ActiveIds(mv) : TRUE ELSE tr.version

WriteTarget(tr, mv) == tr.version

\* the training run stores the fitted coefficients
WriteModelFile ==
  /\ trainer.pc = "fit"
  /\ LET i == WriteTarget(trainer, model_versions)
     IN  model_versions' =
           SetRow(model_versions, i, [model_versions[i] EXCEPT !.model_file = trainer.version])
  /\ trainer' = [trainer EXCEPT !.pc = "config"]
  /\ UNCHANGED <<score_history, reader, failures, outcomes, simVars, propVars>>

\* the training run puts its result in place as the active version
WriteFeaturesConfig_ActivatesResult ==
  /\ trainer.pc = "config"
  /\ LET i == WriteTarget(trainer, model_versions)
         written == SetRow(model_versions, i,
                           [model_versions[i] EXCEPT !.features_config = trainer.version])
     IN  model_versions' =
           [j \in 1..Len(written) |->
              IF j = trainer.version
              THEN [written[j] EXCEPT !.status = "activated", !.is_active = TRUE]
              ELSE [written[j] EXCEPT !.is_active = FALSE]]
  /\ trainer' = [pc |-> "idle", version |-> 0]
  /\ outcomes' = MoveOutcomes(outcomes, "training", "incorporated")
  /\ UNCHANGED <<score_history, reader, failures, simVars, propVars>>

\* the training run stores the feature order and becomes a candidate
WriteFeaturesConfig ==
  /\ trainer.pc = "config"
  /\ LET i == WriteTarget(trainer, model_versions)
         written == SetRow(model_versions, i,
                           [model_versions[i] EXCEPT !.features_config = trainer.version])
     IN  model_versions' =
           SetRow(written, trainer.version,
                  [written[trainer.version] EXCEPT !.status = "candidate"])
  /\ trainer' = [pc |-> "idle", version |-> 0]
  /\ outcomes' = MoveOutcomes(outcomes, "training", "incorporated")
  /\ UNCHANGED <<score_history, reader, failures, simVars, propVars>>

\* a failed run activates what it has got
TrainingFails_ActivatesBroken ==
  /\ trainer.pc \in { "fit", "config" }
  /\ model_versions' =
       [i \in 1..Len(model_versions) |->
          IF i = trainer.version
          THEN [model_versions[i] EXCEPT !.is_active = TRUE]
          ELSE [model_versions[i] EXCEPT !.is_active = FALSE]]
  /\ failures' = failures \cup { trainer.version }
  /\ trainer' = [pc |-> "idle", version |-> 0]
  /\ outcomes' = MoveOutcomes(outcomes, "training", "failed")
  /\ UNCHANGED <<score_history, reader, simVars, propVars>>

\* TrainingFailure: the run is abandoned where it stands (it never becomes a
\* candidate) and the failure is reported
TrainingFails ==
  /\ trainer.pc \in { "fit", "config" }
  /\ model_versions' = model_versions
  /\ failures' = failures \cup { trainer.version }
  /\ trainer' = [pc |-> "idle", version |-> 0]
  /\ outcomes' = MoveOutcomes(outcomes, "training", "failed")
  /\ UNCHANGED <<score_history, reader, simVars, propVars>>

\* activation of whatever version is named, candidate or not
Activate_AnyStatus(v) ==
  /\ trainer.pc = "idle"
  /\ model_versions' =
       [i \in 1..Len(model_versions) |->
          IF i = v
          THEN [model_versions[i] EXCEPT !.status = "activated", !.is_active = TRUE]
          ELSE [model_versions[i] EXCEPT !.is_active = FALSE]]
  /\ UNCHANGED <<score_history, reader, trainer, failures, outcomes, simVars, propVars>>

\* activation: one atomic swap, serialized with training
Activate(v) ==
  /\ trainer.pc = "idle"
  /\ model_versions[v].status = "candidate"
  /\ model_versions' =
       [i \in 1..Len(model_versions) |->
          IF i = v
          THEN [model_versions[i] EXCEPT !.status = "activated", !.is_active = TRUE]
          ELSE [model_versions[i] EXCEPT !.is_active = FALSE]]
  /\ UNCHANGED <<score_history, reader, trainer, failures, outcomes, simVars, propVars>>

Discard(v) ==
  /\ trainer.pc = "idle"
  /\ model_versions[v].status = "candidate"
  /\ model_versions' =
       SetRow(model_versions, v, [model_versions[v] EXCEPT !.status = "discarded"])
  /\ UNCHANGED <<score_history, reader, trainer, failures, outcomes, simVars, propVars>>

\* predict: takes the active version, then reads its two parts
\* the feature vectors scored
PredictVectors ==
  { prepareDataForBackend(DemoProfile), prepareDataForBackend(PoorProfile) }

\* predict, translate and explain are functions of the coefficients read,
\* the feature order read and the vector: the output is held as that triple
PredictOutput(model_file, features_config, vector) ==
  [weights |-> model_file, order |-> features_config, vector |-> vector]

PredictBegin ==
  /\ reader.pc = "idle"
  /\ \E v \in ActiveIds(model_versions) : \E vector \in PredictVectors :
       reader' = [reader EXCEPT !.pc = "read_model", !.version = v,
                                !.vector = Some(vector)]
  /\ UNCHANGED <<storeVars, trainer, failures, outcomes, simVars, propVars>>

\* predict reads the coefficients of whatever version is active by then
PredictReadModel_ReadsActive ==
  /\ reader.pc = "read_model"
  /\ reader' = [reader EXCEPT
       !.pc = "read_config",
       !.model_file =
          model_versions[CHOOSE i \in ActiveIds(model_versions) : TRUE].model_file]
  /\ UNCHANGED <<storeVars, trainer, failures, outcomes, simVars, propVars>>

PredictReadModel ==
  /\ reader.pc = "read_model"
  /\ reader' = [reader EXCEPT !.pc = "read_config",
                              !.model_file = model_versions[reader.version].model_file]
  /\ UNCHANGED <<storeVars, trainer, failures, outcomes, simVars, propVars>>

PredictReadConfig ==
  /\ reader.pc = "read_config"
  /\ LET features_config == model_versions[reader.version].features_config
     IN reader' = [reader EXCEPT
          !.pc = "done",
          !.features_config = features_config,
          !.output = Some(PredictOutput(reader.model_file, features_config,
                                        reader.vector[1]))]
  /\ UNCHANGED <<storeVars, trainer, failures, outcomes, simVars, propVars>>

\* the call returns; the first call that is kept stays kept
PredictEnd ==
  /\ reader.pc = "done"
  /\ \E kept \in { reader.kept,
                    Some([version |-> reader.version, vector |-> reader.vector[1],
                          output |-> reader.output[1]]) } :
       /\ reader.kept # Null => kept = reader.kept
       /\ reader' = ReaderIdle(kept)
  /\ UNCHANGED <<storeVars, trainer, failures, outcomes, simVars, propVars>>

InitLife ==
  /\ currentData = DemoProfile
  /\ currentScore = 720
  /\ NoRequestState
  /\ StoresInit
  /\ EngineIdle
  /\ PageIdle
  /\ AuthIdle

NextLife ==
  \/ RecordOutcome
  \/ StartTraining
  \/ WriteModelFile
  \/ WriteFeaturesConfig
  \/ TrainingFails
  \/ \E v \in 1..Len(model_versions) : Activate(v)
  \/ \E v \in 1..Len(model_versions) : Discard(v)
  \/ PredictBegin
  \/ PredictReadModel
  \/ PredictReadConfig
  \/ PredictEnd

SpecLife == InitLife /\ [][NextLife]_vars

----------------------------------------------------------------------------
(* Properties of the simulator *)

MaxScore == 900

ScoreRange == MinScore..MaxScore

\* C1: a result that the local fallback produced is displayed with the
\* "simplified calculation" marker in front of its explanation.
C1_DegradedResultIsMarked ==
  resultSource = "local" =>
    /\ projectedScore # Null
    /\ Len(explanation) > 0
    /\ explanation[1] = Text(WarnPrefix)

C1_Witness ==
  /\ resultSource = "local"
  /\ projectedScore # Null
  /\ ~loading

\* C2: a request that got no response from the server still ends with a
\* projection of the local heuristic, never with an error and no projection.
C2_NoResponseFallsBack ==
  error = Some(ErrBackendDown) =>
    /\ projectedScore # Null
    /\ resultSource = "local"

RepaymentImproves ==
  /\ Has(hypotheticalChanges, "loan_repayment_status")
  /\ hypotheticalChanges["loan_repayment_status"] = 1
  /\ OrDefault(currentData, "loan_repayment_status", 0) = 0

\* C3: in the fallback, current score 650 and the single change
\* loan_repayment_status 0 -> 1 give projected score 690 and score change +40.
C3_DocumentedExample ==
  ( /\ resultSource = "local"
    /\ currentScore = 650
    /\ DOMAIN hypotheticalChanges = { "loan_repayment_status" }
    /\ RepaymentImproves )
  => /\ projectedScore = Some(690)
     /\ scoreChange = 40

C3_Witness ==
  /\ resultSource = "local"
  /\ currentScore = 650
  /\ DOMAIN hypotheticalChanges = { "loan_repayment_status" }
  /\ RepaymentImproves
  /\ projectedScore = Some(690)

\* C4: the displayed score change is the projected score minus the current
\* score the caller supplied.
C4_ChangeIsDifference ==
  (resultSource = "local" /\ currentScore \in ScoreRange)
  => scoreChange = projectedScore[1] - currentScore

\* C5: the projected score lies in [min_score, max_score] and the fallback
\* caps base + adjustment to that same range.
C5_CappedToScoreRange ==
  resultSource = "local" =>
    /\ projectedScore[1] \in ScoreRange
    /\ projectedScore[1] =
         MathRound(Max(MinScore * Scale,
                       Min(MaxScore * Scale,
                           BaseScore(currentScore) * Scale
                             + ScoreAdjustment(currentData, hypotheticalChanges))))

WithoutRepayment ==
  [k \in DOMAIN hypotheticalChanges \ { "loan_repayment_status" } |->
     hypotheticalChanges[k]]

\* C6: with loan_repayment_status 0 -> 1 among the changes the fallback never
\* projects less than without it (less than the current score, when it is the
\* only change), for every current score of the score range.
C6_RepaymentMonotone ==
  (resultSource = "local" /\ currentScore \in ScoreRange /\ RepaymentImproves)
  => projectedScore[1] >=
       IF DOMAIN WithoutRepayment = {} THEN currentScore
       ELSE simulateScoreLocally(currentData, WithoutRepayment, currentScore).projected_score

----------------------------------------------------------------------------
(* Properties of the model lifecycle and of the stored state *)

\* C7: exactly one model version is active in every reachable state, across
\* training, failure, discard and the activation swap.
C7_ExactlyOneActive == Cardinality(ActiveIds(model_versions)) = 1

C7_Witness ==
  /\ Len(model_versions) >= 2
  /\ model_versions[2].is_active
  /\ ~model_versions[1].is_active

\* C8: a finished predict has read the model file and the features_config
\* of one training run, whatever training or activation ran meanwhile.
C8_PredictSeesWholeVersion ==
  reader.pc = "done" =>
    /\ reader.model_file # 0
    /\ reader.model_file = reader.features_config
    /\ reader.model_file = reader.version

C8_Witness ==
  /\ reader.pc = "done"
  /\ Len(model_versions) >= 2
  /\ ~model_versions[reader.version].is_active

TrainingFailedStep ==
  /\ trainer.pc # "idle"
  /\ trainer'.pc = "idle"
  /\ model_versions'[trainer.version].status = "training"

\* C9: a failed retraining leaves the active version active and unchanged,
\* reports the failure, and the failed version is never active.
C9_FailureKeepsActive ==
  /\ [](\A v \in failures : ~model_versions[v].is_active)
  /\ [][TrainingFailedStep =>
          /\ ActiveIds(model_versions') = ActiveIds(model_versions)
          /\ \A i \in ActiveIds(model_versions) : model_versions'[i] = model_versions[i]
          /\ trainer.version \in failures']_vars

C9_Witness ==
  /\ failures # {}
  /\ \E v \in failures : model_versions[v].status = "training"
  /\ Cardinality(ActiveIds(model_versions)) = 1

\* C10: no step of a simulation changes score_history or model_versions;
\* the stored state changes only by an explicit commit.
C10_SimulateLeavesStores ==
  [][ /\ (handleSimulate \/ SimulateSucceeds \/ SimulateFails) => UNCHANGED storeVars
      /\ ~(UNCHANGED storeVars) => CommitUpdate ]_vars

C10_Witness ==
  /\ resultSource = "model"
  /\ projectedScore # Null
  /\ Len(score_history) > Len(SampleScoreHistory)

----------------------------------------------------------------------------
(* The handlers called directly, past the disabled state of the controls *)

\* handleSimulate is entered while hypotheticalChanges is empty
SimulateWithoutChanges ==
  /\ ~loading
  /\ DOMAIN hypotheticalChanges = {}
  /\ handleSimulateStart

NextSimDirect == NextSim \/ SimulateWithoutChanges

SpecSimDirect == InitSim /\ [][NextSimDirect]_vars

\* C11: handleSimulate on an empty change set reports the "make at least one
\* change" error, starts no request and leaves no projection.
C11_EmptyChangeSetIsError ==
  [][SimulateWithoutChanges =>
       /\ error' = Some(ErrNoChanges)
       /\ request' = Null
       /\ ~loading'
       /\ projectedScore' = Null
       /\ resultSource' = "none"]_vars

C11_Witness ==
  /\ error = Some(ErrNoChanges)
  /\ DOMAIN hypotheticalChanges = {}
  /\ request = Null
  /\ projectedScore = Null

----------------------------------------------------------------------------
(* The change set against the FeatureVector schema *)

\* the fields of the vector that is sent to the model
FeatureVectorFields == DOMAIN prepareDataForBackend(<< >>)

UnknownFields(changes) == DOMAIN changes \ FeatureVectorFields

----------------------------------------------------------------------------
(* handleParameterChange over the values a caller can hand it *)

HandlerParameters == SimParameters \cup { "age" }

\* values in tenths: in range, out of range, and with a fractional part
HandlerInputs(parameter) ==
  CASE parameter = "loan_repayment_status" -> { 0, 10 }
    [] parameter = "mobile_recharge_frequency" -> { 0, 10, 40, 45, 50 }
    [] parameter = "monthly_income" -> { 250000, -10000, -5 }
    [] parameter = "age" -> { 170, 350, 650, 659, 660 }
    [] OTHER -> {}

EditParameter ==
  \E parameter \in HandlerParameters :
    \E value \in HandlerInputs(parameter) : handleParameterChange(parameter, value)

NextHandlers == EditParameter \/ resetSimulation

SpecHandlers == InitSim /\ [][NextHandlers]_vars

\* the value, in tenths, lies outside the allowed range of its field
OutOfRange(parameter, value) ==
  \/ parameter = "mobile_recharge_frequency" /\ (value < 10 \/ value > 40)
  \/ parameter = "monthly_income" /\ value < 0
  \/ parameter = "age" /\ (value < 180 \/ value > 650)

----------------------------------------------------------------------------
(* RiskMatrix: the risk/need lookup *)

RiskLevels == { "Low Risk", "Medium Risk", "High Risk" }

NeedFlags == { "Low Need", "High Need" }

\* a category string is held as its parts around " - ": "Low Risk - High Need"
CategoryString(risk, need) == Some(<< risk, need >>)

\* category.split(' - '), parts[0] || 'Unknown', parts[1] || 'Unknown'
parseRiskCategory(category) ==
  IF category = Null \/ category = Some(<< "" >>)
  THEN [risk |-> "Unknown", need |-> "Unknown"]
  ELSE LET parts == category[1]
       IN [risk |-> IF parts[1] = "" THEN "Unknown" ELSE parts[1],
           need |-> IF Len(parts) >= 2 /\ parts[2] # "" THEN parts[2] ELSE "Unknown"]

\* a matrix without the Medium Risk rows
matrixCategories_NoMediumRows ==
  << [id |-> "low-risk-low-need", risk |-> "Low Risk", need |-> "Low Need",
      label |-> "Stable", recommendation |-> "Maintain current financial habits"],
     [id |-> "low-risk-high-need", risk |-> "Low Risk", need |-> "High Need",
      label |-> "Prime Candidate", recommendation |-> "Ideal for loan approval"],
     [id |-> "high-risk-low-need", risk |-> "High Risk", need |-> "Low Need",
      label |-> "Monitor", recommendation |-> "Monitor financial behavior"],
     [id |-> "high-risk-high-need", risk |-> "High Risk", need |-> "High Need",
      label |-> "High Risk", recommendation |-> "Requires financial guidance"] >>

matrixCategories ==
  << [id |-> "low-risk-low-need", risk |-> "Low Risk", need |-> "Low Need",
      label |-> "Stable", recommendation |-> "Maintain current financial habits"],
     [id |-> "low-risk-high-need", risk |-> "Low Risk", need |-> "High Need",
      label |-> "Prime Candidate", recommendation |-> "Ideal for loan approval"],
     [id |-> "medium-risk-low-need", risk |-> "Medium Risk", need |-> "Low Need",
      label |-> "Monitor", recommendation |-> "Monitor financial behavior"],
     [id |-> "high-risk-low-need", risk |-> "High Risk", need |-> "Low Need",
      label |-> "Monitor", recommendation |-> "Monitor financial behavior"],
     [id |-> "medium-risk-high-need", risk |-> "Medium Risk", need |-> "High Need",
      label |-> "Caution", recommendation |-> "Conditional approval with guidance"],
     [id |-> "high-risk-high-need", risk |-> "High Risk", need |-> "High Need",
      label |-> "High Risk", recommendation |-> "Requires financial guidance"] >>

\* Array.prototype.find: the first of the elements that satisfy the test
\* (hits holds their positions), if any
Find(cells, hits) ==
  IF hits = {} THEN Null
  ELSE Some(cells[CHOOSE i \in hits : \A j \in hits : i <= j])

\* cat.risk.includes('Medium'): of the risk names of the matrix only
\* "Medium Risk" contains it
IncludesMedium(risk) == risk = "Medium Risk"

currentCategory(category) ==
  LET parsed == parseRiskCategory(category)
      cells == matrixCategories
      exact == { i \in 1..Len(cells) :
                   cells[i].risk = parsed.risk /\ cells[i].need = parsed.need }
      medium == { i \in 1..Len(cells) :
                    IncludesMedium(cells[i].risk) /\ cells[i].need = parsed.need }
  IN IF Find(cells, exact) # Null THEN Find(cells, exact) ELSE Find(cells, medium)

DefaultRecommendations ==
  { "Excellent creditworthiness - approve loans confidently",
    "Good candidate - consider with standard terms",
    "Requires improvement - provide financial guidance" }

getRecommendation(category, score) ==
  IF currentCategory(category) # Null
  THEN currentCategory(category)[1].recommendation
  ELSE IF score >= 700 THEN "Excellent creditworthiness - approve loans confidently"
  ELSE IF score >= 550 THEN "Good candidate - consider with standard terms"
  ELSE "Requires improvement - provide financial guidance"

----------------------------------------------------------------------------
(* BeneficiaryDashboard: loading the profile *)

\* the demo record of api.js, whole
createDemoBeneficiaryData ==
  [id |-> "demo", age |-> 35, employment_type |-> 2, monthly_income |-> 25000,
   loan_repayment_status |-> 1, loan_tenure_months |-> 12,
   electricity_bill_paid_on_time |-> 1, mobile_recharge_frequency |-> 2,
   is_high_need |-> 0, credit_score |-> 720,
   risk_category |-> CategoryString("Low Risk", "High Need")]

ServerScores == { 300, 550, 700, 900 }

\* a beneficiary as the backend hands it out: the need category is the
\* is_high_need flag
ServerBeneficiary(risk, need, score) ==
  [id |-> "ZEN001", age |-> 35, employment_type |-> 2, monthly_income |-> 25000,
   loan_repayment_status |-> 1, loan_tenure_months |-> 12,
   electricity_bill_paid_on_time |-> 1, mobile_recharge_frequency |-> 2,
   is_high_need |-> IF need = "High Need" THEN 1 ELSE 0, credit_score |-> score,
   risk_category |-> CategoryString(risk, need)]

ServerBeneficiaries ==
  { ServerBeneficiary(risk, need, score) :
      risk \in RiskLevels, need \in NeedFlags, score \in ServerScores }

\* what GET /beneficiaries?email= can come back with
ApiResponses ==
  { [kind |-> "ok", beneficiaries |-> << b >>] : b \in ServerBeneficiaries }
    \cup { [kind |-> "ok", beneficiaries |-> << >>], [kind |-> "error"] }

getBeneficiaryByEmail(response) ==
  IF response.kind = "ok"
  THEN IF Len(response.beneficiaries) > 0
       THEN response.beneficiaries[1]
       ELSE createDemoBeneficiaryData
  ELSE createDemoBeneficiaryData

\* GET /score-history/{id}: the stored records of the beneficiary
ServerScoreHistory(id, sh) == SelectSeq(sh, LAMBDA r : r.beneficiary_id = id)

\* loadData up to its first await (the signed-in user has an email address)
loadData ==
  /\ page.fetch = "none"
  /\ page' = [page EXCEPT !.loading = TRUE, !.error = Null, !.fetch = "beneficiary"]
  /\ UNCHANGED <<currentData, currentScore, auth>>
  /\ UNCHANGED <<simVars, storeVars, engineVars>>

\* getBeneficiaryByEmail returns: the profile is set and the simulator gets
\* currentData = beneficiaryData, currentScore = credit_score || 0
BeneficiaryArrives(response) ==
  /\ page.fetch = "beneficiary"
  /\ LET beneficiary == getBeneficiaryByEmail(response)
     IN /\ page' = [page EXCEPT !.beneficiaryData = Some(beneficiary),
                                !.fetch = "history"]
        /\ currentData' = beneficiary
        /\ currentScore' = OrDefault(beneficiary, "credit_score", 0)
  /\ UNCHANGED <<auth, simVars, storeVars, engineVars>>

\* getScoreHistory returns, then finally: setLoading(false)
HistoryArrives ==
  /\ page.fetch = "history"
  /\ page' = [page EXCEPT
       !.scoreHistory = ServerScoreHistory(page.beneficiaryData[1].id, score_history),
       !.loading = FALSE, !.fetch = "none"]
  /\ UNCHANGED <<currentData, currentScore, auth>>
  /\ UNCHANGED <<simVars, storeVars, engineVars>>

\* getScoreHistory throws: the history is emptied, then finally
HistoryFails ==
  /\ page.fetch = "history"
  /\ page' = [page EXCEPT !.scoreHistory = << >>, !.loading = FALSE, !.fetch = "none"]
  /\ UNCHANGED <<currentData, currentScore, auth>>
  /\ UNCHANGED <<simVars, storeVars, engineVars>>

InitPage ==
  /\ currentData = << >>
  /\ currentScore = 0
  /\ NoRequestState
  /\ StoresInit
  /\ EngineIdle
  /\ PageIdle
  /\ AuthIdle

NextPage ==
  \/ loadData
  \/ \E response \in ApiResponses : BeneficiaryArrives(response)
  \/ HistoryArrives
  \/ HistoryFails

SpecPage == InitPage /\ [][NextPage]_vars

\* the dashboard shows the profile: RiskMatrix is rendered from it
ShowsProfile ==
  /\ ~page.loading
  /\ page.error = Null
  /\ page.beneficiaryData # Null

\* C14: for every risk level with every need flag the matrix lookup yields
\* the cell of that very combination, and the recommendation shown is that
\* cell's, not one of the defaults used when no cell is found.
C14_EveryCombinationHasCell ==
  \A risk \in RiskLevels : \A need \in NeedFlags :
    (ShowsProfile /\ page.beneficiaryData[1].risk_category = CategoryString(risk, need))
    => LET category == page.beneficiaryData[1].risk_category
           cell == currentCategory(category)
       IN /\ cell # Null
          /\ cell[1].risk = risk
          /\ cell[1].need = need
          /\ getRecommendation(category, currentScore) = cell[1].recommendation
          /\ getRecommendation(category, currentScore) \notin DefaultRecommendations

C14_Witness ==
  /\ ShowsProfile
  /\ page.beneficiaryData[1].risk_category = CategoryString("Medium Risk", "High Need")
  /\ getRecommendation(page.beneficiaryData[1].risk_category, currentScore)
       = "Conditional approval with guidance"

\* the need named by the category of a record
NeedOf(record) == parseRiskCategory(record.risk_category).need

\* C15: in every record handed to the caller the need category is the
\* is_high_need flag: High Need exactly when the flag is 1, Low Need exactly
\* when it is 0.
C15_NeedIsFlagVerbatim ==
  page.beneficiaryData # Null
  => LET record == page.beneficiaryData[1]
     IN /\ NeedOf(record) = "High Need" <=> record.is_high_need = 1
        /\ NeedOf(record) = "Low Need" <=> record.is_high_need = 0

\* C16: when the backend cannot be reached the primary request ends in an
\* error shown to the user and no score is put in place of the missing one.
C16_PrimaryRequestErrorsHard ==
  [][\A response \in ApiResponses :
       (response.kind = "error" /\ BeneficiaryArrives(response))
       => /\ page'.error # Null
          /\ page'.beneficiaryData = page.beneficiaryData]_vars

----------------------------------------------------------------------------
(* ModelVersion lifecycle *)

LifecycleArrows ==
  { << "training", "candidate" >>, << "candidate", "activated" >>,
    << "candidate", "discarded" >> }

\* C17: a version changes status only along training -> candidate ->
\* (activated | discarded); every new version starts in training and not
\* active; a version becomes active only in the step that takes it from
\* candidate to activated; a discarded version is never active.
C17_VersionLifecycle ==
  /\ [](\A i \in 1..Len(model_versions) :
          model_versions[i].status = "discarded" => ~model_versions[i].is_active)
  /\ [][/\ Len(model_versions') >= Len(model_versions)
        /\ \A i \in 1..Len(model_versions') :
             IF i <= Len(model_versions)
             THEN /\ model_versions'[i].status # model_versions[i].status
                       => << model_versions[i].status, model_versions'[i].status >>
                            \in LifecycleArrows
                  /\ (~model_versions[i].is_active /\ model_versions'[i].is_active)
                       => /\ model_versions[i].status = "candidate"
                          /\ model_versions'[i].status = "activated"
             ELSE /\ model_versions'[i].status = "training"
                  /\ ~model_versions'[i].is_active]_vars

C17_Witness ==
  /\ \E i \in 1..Len(model_versions) : model_versions[i].status = "discarded"
  /\ \E i \in 2..Len(model_versions) :
       model_versions[i].status = "activated" /\ model_versions[i].is_active

\* a step of the incremental training (update)
UpdateStep == StartTraining \/ WriteModelFile \/ WriteFeaturesConfig \/ TrainingFails

\* C18: no step of an update changes the active version or which version is
\* active; a finished update leaves its result as a candidate that is not
\* active; the active version changes only by an activation.
C18_UpdateProducesCandidate ==
  /\ [][UpdateStep =>
          /\ ActiveIds(model_versions') = ActiveIds(model_versions)
          /\ \A i \in ActiveIds(model_versions) : model_versions'[i] = model_versions[i]]_vars
  /\ [][(trainer.pc = "config" /\ trainer'.pc = "idle" /\ trainer.version \notin failures')
          => /\ model_versions'[trainer.version].status = "candidate"
             /\ ~model_versions'[trainer.version].is_active]_vars
  /\ [][ActiveIds(model_versions') # ActiveIds(model_versions)
          => \E v \in 1..Len(model_versions) : Activate(v)]_vars

C18_Witness ==
  /\ trainer.pc = "idle"
  /\ \E i \in 1..Len(model_versions) :
       /\ model_versions[i].status = "candidate"
       /\ model_versions[i].model_file = i
       /\ model_versions[i].features_config = i
  /\ ActiveIds(model_versions) = { 1 }
  /\ model_versions[1] = SampleModelVersions[1]

----------------------------------------------------------------------------
(* The stored score history under the database scripts *)

\* the beneficiaries of the sample users (@zenith.local, @rdb.local)
SampleBeneficiaries == { "ZEN001", "ZEN002", "ZEN003" }

\* sample_data.sql run on a populated database: the history rows of the
\* sample beneficiaries are deleted and the sample rows inserted again; the
\* insert of the model version stops at its primary key, which exists
LoadSampleData ==
  /\ score_history' =
       SelectSeq(score_history, LAMBDA r : r.beneficiary_id \notin SampleBeneficiaries)
         \o SampleScoreHistory
  /\ model_versions' = model_versions
  /\ UNCHANGED <<simVars, propVars, engineVars>>

NextStore == NextSim \/ LoadSampleData

SpecStore == InitSim /\ [][NextStore]_vars

----------------------------------------------------------------------------
(* Recorded outcomes *)

\* retraining is triggered while outcomes wait, and a training run that has
\* started keeps running until it has written its version or failed
SpecLifeFair ==
  /\ SpecLife
  /\ WF_vars(HasOutcome("pending") /\ StartTraining)
  /\ WF_vars(WriteModelFile)
  /\ WF_vars(WriteFeaturesConfig)

OutcomeSettled(i) ==
  /\ Len(outcomes) >= i
  /\ outcomes[i] \in { "incorporated", "failed" }

----------------------------------------------------------------------------
(* Encoding of the employment type *)

\* the labels of the lookup table of convertEmploymentType
TableLabels ==
  { LabelCode.unemployed, LabelCode.self_employed, LabelCode.salaried,
    LabelCode.business_owner }

\* what a stored employment_type can hold: a code or a label, known or not
EmploymentInputs ==
  { 0, 1, 2, 3 } \cup TableLabels \cup { LabelCode.student, LabelCode.constructor }

EncodeProfiles ==
  { DemoProfile, PoorProfile, DefaultProfile, OddProfile }
    \cup { WithChange(p, "employment_type", e) :
             p \in { DemoProfile, PoorProfile, DefaultProfile, OddProfile },
             e \in EmploymentInputs }

EncodeChangeSets ==
  { WithChange(<< >>, "loan_repayment_status", 1),
    WithChange(<< >>, "employment_type", 0),
    WithChange(<< >>, "employment_type", 2) }

\* the simulator with edits made, about to be asked to simulate
InitEncode ==
  /\ currentData \in EncodeProfiles
  /\ currentScore = 650
  /\ hypotheticalChanges \in EncodeChangeSets
  /\ projectedScore = Null
  /\ scoreChange = 0
  /\ explanation = << >>
  /\ loading = FALSE
  /\ error = Null
  /\ chartData = << >>
  /\ request = Null
  /\ resultSource = "none"
  /\ StoresInit
  /\ EngineIdle
  /\ PageIdle
  /\ AuthIdle

NextEncode == handleSimulate

SpecEncode == InitEncode /\ [][NextEncode]_vars

\* C21: a stored employment label that is not in the lookup table is sent
\* to the model as 0.
C21_UnknownLabelEncodesZero ==
  (/\ request # Null
   /\ Has(currentData, "employment_type")
   /\ ~IsNumber(currentData["employment_type"])
   /\ currentData["employment_type"] \notin TableLabels)
  => request[1].req.body.current_data.employment_type = 0

----------------------------------------------------------------------------
(* Improvement suggestions *)

MaxSuggestions == 3

Suggestion(parameter, value, title, impact) ==
  [parameter |-> parameter, value |-> value, title |-> title, impact |-> impact]

\* the candidates in the order the function pushes them
SuggestionCandidates(data) ==
  (IF Nullish(data, "loan_repayment_status", 0) = 0
   THEN << Suggestion("loan_repayment_status", 1, "Improve Loan Repayment", "High") >>
   ELSE << >>)
  \o (IF Nullish(data, "electricity_bill_paid_on_time", 0) = 0
      THEN << Suggestion("electricity_bill_paid_on_time", 1,
                         "Pay Utility Bills On Time", "Medium") >>
      ELSE << >>)
  \o (IF JsLess(Nullish(data, "mobile_recharge_frequency", 1), 3)
      THEN << Suggestion("mobile_recharge_frequency", 4,
                         "Increase Mobile Recharge Frequency", "Low") >>
      ELSE << >>)
  \o (IF Nullish(data, "employment_type", 0) = 0
      THEN << Suggestion("employment_type", 2, "Secure Stable Employment", "High") >>
      ELSE << >>)

\* the mobile suggestion proposes the lowest frequency
getImprovementSuggestions_LowersMobile(data) ==
  LET all == SuggestionCandidates(data)
      cut == SubSeq(all, 1, Min(MaxSuggestions, Len(all)))
  IN [i \in 1..Len(cut) |->
        IF cut[i].parameter = "mobile_recharge_frequency"
        THEN [cut[i] EXCEPT !.value = 1] ELSE cut[i]]

\* suggestions.slice(0, 3)
getImprovementSuggestions(data) ==
  LET all == SuggestionCandidates(data)
  IN SubSeq(all, 1, Min(MaxSuggestions, Len(all)))

\* a whole number as the value a control hands to handleParameterChange
Tenths(n) == 10 * n

applySuggestion(suggestion) ==
  handleParameterChange(suggestion.parameter, Tenths(suggestion.value))

\* a click on Apply of one of the suggestions shown
ApplySuggestion ==
  \E i \in 1..Len(getImprovementSuggestions(currentData)) :
    applySuggestion(getImprovementSuggestions(currentData)[i])

InitSuggest ==
  /\ currentData \in LocalProfiles
  /\ currentScore \in SimScores
  /\ NoRequestState
  /\ StoresInit
  /\ EngineIdle
  /\ PageIdle
  /\ AuthIdle

NextSuggest ==
  \/ ApplySuggestion
  \/ handleSimulate
  \/ SimulateSucceeds
  \/ SimulateFails
  \/ resetSimulation

SpecSuggest == InitSuggest /\ [][NextSuggest]_vars

ImpactRank(impact) ==
  CASE impact = "High" -> 3 [] impact = "Medium" -> 2 [] impact = "Low" -> 1

\* C22: at most three suggestions are shown, the one of highest impact
\* first, and no candidate left out has a higher impact than one shown.
C22_TopSuggestionsByImpact ==
  LET shown == getImprovementSuggestions(currentData)
      all == SuggestionCandidates(currentData)
  IN /\ Len(shown) <= MaxSuggestions
     /\ \A i, j \in 1..Len(shown) :
          i < j => ImpactRank(shown[i].impact) >= ImpactRank(shown[j].impact)
     /\ \A i \in 1..Len(shown) : \A j \in 1..Len(all) :
          (\A k \in 1..Len(shown) : shown[k] # all[j])
          => ImpactRank(shown[i].impact) >= ImpactRank(all[j].impact)

\* the change set is one emitted suggestion and nothing else
OnlySuggestion(changes) ==
  \E i \in 1..Len(getImprovementSuggestions(currentData)) :
    LET s == getImprovementSuggestions(currentData)[i]
    IN changes = WithChange(<< >>, s.parameter, s.value)

\* C23: a degraded-mode result computed from one emitted suggestion as the
\* only change has a strictly positive score change.
C23_SuggestionImproves ==
  [][(/\ request # Null
      /\ OnlySuggestion(request[1].changes)
      /\ request' = Null
      /\ resultSource' = "local")
     => scoreChange' > 0]_vars

C23_Witness ==
  /\ resultSource = "local"
  /\ hypotheticalChanges = WithChange(<< >>, "mobile_recharge_frequency", 4)
  /\ OnlySuggestion(hypotheticalChanges)
  /\ scoreChange > 0

----------------------------------------------------------------------------
(* Determinism of scoring *)

\* the finished call scores the vector of the kept call against its version
RepeatsKeptCall ==
  /\ reader.pc = "done"
  /\ reader.kept # Null
  /\ reader.kept[1].version = reader.version
  /\ reader.kept[1].vector = reader.vector[1]

----------------------------------------------------------------------------
(* The vectors handed to the model *)

\* schema.sql: a beneficiary whose employment_type is the enum label
\* business_owner
OwnerProfile ==
  [employment_type |-> LabelCode.business_owner, monthly_income |-> 25000,
   loan_repayment_status |-> 1, loan_tenure_months |-> 18,
   electricity_bill_paid_on_time |-> 1, mobile_recharge_frequency |-> 4,
   is_high_need |-> 0]

VectorProfiles == { DemoProfile, PoorProfile, DefaultProfile, OwnerProfile }

InitVector ==
  /\ currentData \in VectorProfiles
  /\ currentScore = 650
  /\ NoRequestState
  /\ StoresInit
  /\ EngineIdle
  /\ PageIdle
  /\ AuthIdle

NextVector ==
  \/ \E parameter \in SimParameters :
       \E value \in InputValues(parameter) : handleParameterChange(parameter, value)
  \/ ApplySuggestion
  \/ handleSimulate
  \/ SimulateSucceeds
  \/ SimulateFails
  \/ resetSimulation

SpecVector == InitVector /\ [][NextVector]_vars

\* the value lies in the FeatureVector domain of its field
InFieldDomain(field, value) ==
  CASE field \in { "loan_repayment_status", "electricity_bill_paid_on_time",
                   "is_high_need" } -> value \in { 0, 1 }
    [] field = "mobile_recharge_frequency" -> value \in 1..4
    [] field = "age" -> value \in 18..65
    [] field = "monthly_income" -> IsNumber(value) /\ value >= 0
    [] field = "employment_type" -> value \in { 0, 1, 2 }
    [] OTHER -> TRUE

InVectorDomain(vector) ==
  \A field \in DOMAIN vector : InFieldDomain(field, vector[field])

\* C25: the baseline vector and the change set of every request sent to the
\* model hold each field inside its FeatureVector domain.
C25_RequestInDomain ==
  request # Null
  => /\ InVectorDomain(request[1].req.body.current_data)
     /\ InVectorDomain(request[1].req.body.hypothetical_changes)

----------------------------------------------------------------------------
(* Requests in flight *)

\* C26: a simulation request starts only while none is in flight and the
\* simulator is not loading, and loading holds as long as a request is in
\* flight.
C26_OneRequestInFlight ==
  /\ [](request # Null => loading)
  /\ [][(request' # Null /\ request' # request)
          => (request = Null /\ ~loading)]_vars

C26_Witness ==
  /\ loading
  /\ request # Null
  /\ hypotheticalChanges # request[1].changes

\* C27: the pending change set does not change while a request is in
\* flight.
C27_ChangeSetFrozenInFlight ==
  [][request # Null => hypotheticalChanges' = hypotheticalChanges]_vars

\* the backend call settles: it answers, fails, or runs into the axios
\* timeout
SpecSimFair == SpecSim /\ WF_vars(SimulateSucceeds \/ SimulateFails)

\* C28: whenever the simulator is loading it eventually is not loading
\* again.
C28_LoadingEnds == loading ~> ~loading

C28_Witness ==
  /\ ~loading
  /\ request = Null
  /\ error = Some(ErrBackendDown)
  /\ hypotheticalChanges # << >>

----------------------------------------------------------------------------
(* Reset *)

\* a simulation request in flight
InitReset ==
  /\ currentData \in SimProfiles
  /\ currentScore \in SimScores
  /\ hypotheticalChanges \in EncodeChangeSets
  /\ projectedScore = Null
  /\ scoreChange = 0
  /\ explanation = << >>
  /\ loading = TRUE
  /\ error = Null
  /\ chartData = << >>
  /\ request = Some([req |-> simulateScore(prepareDataForBackend(currentData),
                                           PreparedChanges(hypotheticalChanges)),
                     changes |-> hypotheticalChanges])
  /\ resultSource = "none"
  /\ StoresInit
  /\ EngineIdle
  /\ PageIdle
  /\ AuthIdle

SpecReset == InitReset /\ [][NextSim]_vars

\* a step of one of the controls
EditStep ==
  \E parameter \in SimParameters :
    \E value \in InputValues(parameter) : handleParameterChange(parameter, value)

\* C29: a reset leaves the simulator in its initial state with no request
\* in flight, and from that state every step that is not a user edit leaves
\* it there: no response arrives to fill in a result.
C29_ResetStaysReset ==
  /\ [][resetSimulation => NoRequestState']_vars
  /\ [][(NoRequestState /\ ~EditStep) => NoRequestState']_vars

\* every behaviour starts with a request in flight, so this state is reached
\* through a reset only
C29_Witness ==
  /\ NoRequestState
  /\ ~loading
  /\ request = Null

----------------------------------------------------------------------------
(* The route guards and the user synchronisation they depend on *)

\* the most syncUser runs awaiting a response at one time
MaxSyncs == 2

\* Clerk accounts: two with a row in table users, one without
ClerkUsers == { "clerk_ben_001", "clerk_admin_001", "clerk_new_001" }

\* table users: clerk_user_id -> role
UsersTable ==
  [clerk_ben_001 |-> "beneficiary", clerk_admin_001 |-> "admin"]

\* role user_role NOT NULL DEFAULT 'beneficiary'
DefaultRole == "beneficiary"

\* useUser().isSignedIn
isSignedIn == auth.user # Null

\* GET /users/clerk/{id} as syncUser reads it: the row, or needs_registration
getUserByClerkId(clerkUserId) ==
  IF clerkUserId \in DOMAIN UsersTable
  THEN [needs_registration |-> FALSE,
        user |-> [clerk_user_id |-> clerkUserId, role |-> UsersTable[clerkUserId],
                  temp_user |-> FALSE]]
  ELSE [needs_registration |-> TRUE]

\* the row POST /users/sync-clerk has created, as the second lookup returns it
RegisteredUser(clerkUserId) ==
  [clerk_user_id |-> clerkUserId, role |-> DefaultRole, temp_user |-> FALSE]

\* the temporary user of the inner catch
TemporaryUser(clerkUserId) ==
  [clerk_user_id |-> clerkUserId, role |-> "beneficiary", temp_user |-> TRUE]

RemoveRun(runs, i) ==
  SubSeq(runs, 1, i - 1) \o SubSeq(runs, i + 1, Len(runs))

\* the effect on [user, isLoaded, isSignedIn]: syncUser up to its first
\* await, or to its end when nobody is signed in
syncUser(a) ==
  IF ~a.isLoaded THEN a
  ELSE IF a.user # Null
  THEN [a EXCEPT !.loading = TRUE, !.error = Null,
                 !.runs = Append(@, [user |-> a.user[1], step |-> "lookup"])]
  ELSE [a EXCEPT !.loading = FALSE, !.error = Null, !.dbUser = Null]

\* Clerk finishes loading, with or without a session
ClerkLoads(session) ==
  /\ ~auth.isLoaded
  /\ auth' = syncUser([auth EXCEPT !.isLoaded = TRUE, !.user = session])
  /\ UNCHANGED <<currentData, currentScore, page>>
  /\ UNCHANGED <<simVars, storeVars, engineVars>>

SignIn(clerkUserId) ==
  /\ auth.isLoaded
  /\ auth.user = Null
  /\ Len(auth.runs) < MaxSyncs
  /\ auth' = syncUser([auth EXCEPT !.user = Some(clerkUserId)])
  /\ UNCHANGED <<currentData, currentScore, page>>
  /\ UNCHANGED <<simVars, storeVars, engineVars>>

SignOut ==
  /\ auth.isLoaded
  /\ auth.user # Null
  /\ auth' = syncUser([auth EXCEPT !.user = Null])
  /\ UNCHANGED <<currentData, currentScore, page>>
  /\ UNCHANGED <<simVars, storeVars, engineVars>>

\* the first getUserByClerkId of run i returns
LookupReturns(i) ==
  /\ i \in 1..Len(auth.runs)
  /\ auth.runs[i].step = "lookup"
  /\ LET run == auth.runs[i]
         response == getUserByClerkId(run.user)
     IN IF response.needs_registration
        THEN auth' = [auth EXCEPT !.runs[i].step = "register"]
        ELSE auth' = [auth EXCEPT !.dbUser = Some(response.user),
                                  !.loading = FALSE,
                                  !.runs = RemoveRun(@, i)]
  /\ UNCHANGED <<currentData, currentScore, page>>
  /\ UNCHANGED <<simVars, storeVars, engineVars>>

\* syncClerkUser of run i returns
RegisterReturns(i) ==
  /\ i \in 1..Len(auth.runs)
  /\ auth.runs[i].step = "register"
  /\ auth' = [auth EXCEPT !.runs[i].step = "refetch"]
  /\ UNCHANGED <<currentData, currentScore, page>>
  /\ UNCHANGED <<simVars, storeVars, engineVars>>

\* the second getUserByClerkId of run i returns, then finally
RefetchReturns(i) ==
  /\ i \in 1..Len(auth.runs)
  /\ auth.runs[i].step = "refetch"
  /\ auth' = [auth EXCEPT !.dbUser = Some(RegisteredUser(auth.runs[i].user)),
                           !.loading = FALSE,
                           !.runs = RemoveRun(@, i)]
  /\ UNCHANGED <<currentData, currentScore, page>>
  /\ UNCHANGED <<simVars, storeVars, engineVars>>

\* any of the three calls of run i throws: the inner catch, then finally
SyncFails(i) ==
  /\ i \in 1..Len(auth.runs)
  /\ auth' = [auth EXCEPT !.dbUser = Some(TemporaryUser(auth.runs[i].user)),
                           !.loading = FALSE,
                           !.runs = RemoveRun(@, i)]
  /\ UNCHANGED <<currentData, currentScore, page>>
  /\ UNCHANGED <<simVars, storeVars, engineVars>>

hasAnyRole(roles) ==
  auth.dbUser # Null /\ auth.dbUser[1].role \in roles

\* ProtectedRoute: what it returns
ProtectedRoute ==
  IF ~auth.isLoaded THEN "loading"
  ELSE IF ~isSignedIn THEN "login"
  ELSE "children"

\* RoleBasedRoute: what it returns
RoleBasedRoute(allowedRoles) ==
  IF ~auth.isLoaded \/ auth.loading THEN "loading"
  ELSE IF ~isSignedIn THEN "login"
  ELSE IF auth.error # Null THEN "error"
  ELSE IF ~hasAnyRole(allowedRoles) THEN "fallback"
  ELSE "children"

\* BeneficiaryRoute
BeneficiaryRoles == { "beneficiary" }

InitAuth ==
  /\ currentData = << >>
  /\ currentScore = 0
  /\ NoRequestState
  /\ StoresInit
  /\ EngineIdle
  /\ PageIdle
  /\ AuthIdle

NextAuth ==
  \/ \E session \in { Null } \cup { Some(u) : u \in ClerkUsers } : ClerkLoads(session)
  \/ \E clerkUserId \in ClerkUsers : SignIn(clerkUserId)
  \/ SignOut
  \/ \E i \in 1..MaxSyncs :
       LookupReturns(i) \/ RegisterReturns(i) \/ RefetchReturns(i) \/ SyncFails(i)

SpecAuth == InitAuth /\ [][NextAuth]_vars

\* no syncUser run of the signed-in user is awaiting a response
SyncFinished ==
  \A i \in 1..Len(auth.runs) : auth.runs[i].user # auth.user[1]

\* C30: protected children are rendered only while Clerk has loaded and a
\* user is signed in; the children of a role-based route only when, besides,
\* the sync of the signed-in user has finished without error and dbUser is
\* the record of that user, with a role among the allowed ones
C30_ChildrenOnlyForCurrentUser ==
  /\ ProtectedRoute = "children" => (auth.isLoaded /\ isSignedIn)
  /\ RoleBasedRoute(BeneficiaryRoles) = "children"
       => /\ auth.isLoaded /\ isSignedIn
          /\ SyncFinished
          /\ auth.error = Null
          /\ auth.dbUser # Null
          /\ auth.dbUser[1].clerk_user_id = auth.user[1]
          /\ auth.dbUser[1].role \in BeneficiaryRoles

====
